---- MODULE Spec2Model ----
(***************************************************************************)
(* The conversation pipeline of backend/agents: OrchestratorAgent.process  *)
(* drives one ConversationState through Router -> {Librarian ->}           *)
(* Interpreter -> Safety Gate.                                             *)
(*                                                                         *)
(* Texts are sequences of lines (the lines of the Python string, joined by *)
(* "\n"): no keyword of the code contains a newline, so `kw in text` is    *)
(* `kw` being a substring of one line.  Floats are integers in hundredths  *)
(* (0.7 is 70).  None is the string "None".  An external call (model,      *)
(* embedder, vector store) either returns a value drawn from a small set   *)
(* or raises.  The three agents are present: their imports in              *)
(* OrchestratorAgent.__init__ need nothing orchestrator.py does not        *)
(* already import, so the *_node fallbacks for a missing agent are not     *)
(* taken.                                                                  *)
(***************************************************************************)
EXTENDS Naturals, Integers, Sequences, FiniteSets, TLC

VARIABLES
  pc,          \* where process() is: "idle", the graph node to run next, or "done"
  state,       \* the ConversationState of the turn
  all_chunks,  \* LibrarianAgent.retrieve: chunks collected so far
  ns_idx,      \* LibrarianAgent.retrieve: namespaces already searched
  result,      \* what process() returned, one dict per finished turn
  log,         \* the turn's events: node starts and external calls
  memo,        \* what each collaborator answered, per call and input
  call,        \* the arguments of the running process(): query, chat_history
  other,       \* the other process() call on this orchestrator, suspended at an await
  collections  \* the points add_document stored, per namespace

vars == <<pc, state, all_chunks, ns_idx, result, log, memo, call, other, collections>>

-----------------------------------------------------------------------------
(* Bounds of the model *)

MaxLines == 1   \* lines of a reply of the generative model
MaxHits == 2    \* points one namespace search returns
MaxTurns == 2   \* times the caller sends its query
MaxDocuments == 1  \* documents add_document stores

-----------------------------------------------------------------------------
(* Sequence helpers *)

Range(s) == {s[i] : i \in DOMAIN s}

Min(a, b) == IF a < b THEN a ELSE b

Take(s, n) == SubSeq(s, 1, Min(n, Len(s)))

SeqsUpTo(S, n) == UNION {[1..k -> S] : k \in 0..n}

None == "None"

-----------------------------------------------------------------------------
(* Strings: str.lower() and the `in` substring test, tabulated for the      *)
(* strings of the model against every keyword list of the code.            *)

Lower(s) ==
  CASE s = "Breathe deeply and stay present."
       -> "breathe deeply and stay present."
    [] s = "A balanced diet supports your energy."
       -> "a balanced diet supports your energy."
    [] s = "You should take this medicine daily."
       -> "you should take this medicine daily."
    [] s = "You should buy this medicine."
       -> "you should buy this medicine."
    [] s = "Obviously, patience matters."
       -> "obviously, patience matters."
    [] s = "Daily practice brings calm."
       -> "daily practice brings calm."
    [] s = "Violence is never the answer."
       -> "violence is never the answer."
    [] s = "I don't have specific information about that topic in my knowledge base. Could you ask about something else or try rephrasing your question?"
       -> "i don't have specific information about that topic in my knowledge base. could you ask about something else or try rephrasing your question?"
    [] s = "I apologize, but I'm having trouble generating a response right now. Please try rephrasing your question."
       -> "i apologize, but i'm having trouble generating a response right now. please try rephrasing your question."
    [] s = "I currently don't have access to any documents in my knowledge base."
       -> "i currently don't have access to any documents in my knowledge base."
    [] s = "Here's what I have access to in my knowledge base:"
       -> "here's what i have access to in my knowledge base:"
    [] s = "**Meditation Documents:**"
       -> "**meditation documents:**"
    [] s = "- Qi Gong Basics"
       -> "- qi gong basics"
    [] s = "Feel free to ask me questions about any of these topics, and I'll provide guidance based on the specific content in my knowledge base."
       -> "feel free to ask me questions about any of these topics, and i'll provide guidance based on the specific content in my knowledge base."
    [] s = "I have access to a knowledge base, but I'm having trouble retrieving the specific document list right now. Please ask me about any topics you're interested in, and I'll see what information I can provide."
       -> "i have access to a knowledge base, but i'm having trouble retrieving the specific document list right now. please ask me about any topics you're interested in, and i'll see what information i can provide."
    [] s = "I have a knowledge base with various documents and teachings, but I'm having trouble accessing the full list right now. Please ask me about specific topics you're interested in."
       -> "i have a knowledge base with various documents and teachings, but i'm having trouble accessing the full list right now. please ask me about specific topics you're interested in."
    [] s = "How do I find Balance in my Life?"
       -> "how do i find balance in my life?"
    [] s = "Hello there"
       -> "hello there"
    [] s = "How should I start investing my savings?"
       -> "how should i start investing my savings?"
    [] s = "My workout and diet plan for a calm home and family"
       -> "my workout and diet plan for a calm home and family"
    [] s = "What documents do you have?"
       -> "what documents do you have?"
    [] s = "Meditation"
       -> "meditation"
    [] OTHER -> s

Substrings(s) ==
  CASE s = "a balanced diet supports your energy."
       -> {"balance", "die", "diet", "energy"}
    [] s = "you should take this medicine daily."
       -> {"medicine", "take this", "you should"}
    [] s = "you should buy this medicine."
       -> {"buy", "medicine", "you should"}
    [] s = "obviously, patience matters."
       -> {"obviously"}
    [] s = "daily practice brings calm."
       -> {"calm", "practice"}
    [] s = "violence is never the answer."
       -> {"violence"}
    [] s = "i don't have specific information about that topic in my knowledge base. could you ask about something else or try rephrasing your question?"
       -> {"form"}
    [] s = "**meditation documents:**"
       -> {"meditation"}
    [] s = "- qi gong basics"
       -> {"qi gong"}
    [] s = "i have access to a knowledge base, but i'm having trouble retrieving the specific document list right now. please ask me about any topics you're interested in, and i'll see what information i can provide."
       -> {"form"}
    [] s = "i have a knowledge base with various documents and teachings, but i'm having trouble accessing the full list right now. please ask me about specific topics you're interested in."
       -> {"chi"}
    [] s = "how do i find balance in my life?"
       -> {"balance", "life"}
    [] s = "how should i start investing my savings?"
       -> {"invest", "investing", "savings"}
    [] s = "my workout and diet plan for a calm home and family"
       -> {"calm", "die", "diet", "family", "home", "work", "workout"}
    [] s = "what documents do you have?"
       -> {"what documents"}
    [] s = "harmful_content_suicide"
       -> {"harmful", "suicide"}
    [] s = "harmful_content_self-harm"
       -> {"harmful", "self-harm"}
    [] s = "harmful_content_kill"
       -> {"harmful", "kill"}
    [] s = "harmful_content_die"
       -> {"die", "harmful"}
    [] s = "harmful_content_death"
       -> {"death", "harmful"}
    [] s = "harmful_content_violence"
       -> {"harmful", "violence"}
    [] s = "harmful_content_abuse"
       -> {"abuse", "harmful"}
    [] s = "harmful_content_illegal"
       -> {"harmful", "illegal", "legal"}
    [] s = "harmful_content_drugs"
       -> {"drugs", "harmful"}
    [] s = "harmful_content_weapon"
       -> {"harmful", "weapon"}
    [] s = "harmful_content_hate"
       -> {"harmful", "hate"}
    [] s = "harmful_content_discrimination"
       -> {"discrimination", "harmful"}
    [] OTHER -> {}

\* `kw in text.lower()` for a text of several lines
Contains(text, kw) == \E i \in DOMAIN text : kw \in Substrings(Lower(text[i]))

\* any(kw in text.lower() for kw in kws)
ContainsAny(text, kws) == \E i \in DOMAIN kws : Contains(text, kws[i])

-----------------------------------------------------------------------------
(* What the turn is given: the query, and the replies of the collaborators *)

MessageLines ==
  { "How do I find Balance in my Life?",
    "Hello there",
    "How should I start investing my savings?",
    "My workout and diet plan for a calm home and family",
    "What documents do you have?" }

Messages == {<<m>> : m \in MessageLines}

ReplyLines ==
  { "Breathe deeply and stay present.",
    "A balanced diet supports your energy.",
    "You should take this medicine daily.",
    "You should buy this medicine.",
    "Obviously, patience matters.",
    "Daily practice brings calm.",
    "Violence is never the answer.",
    "I don't have specific information about that topic in my knowledge base. Could you ask about something else or try rephrasing your question?" }

\* a message content that is a list of content blocks and not a str
ContentBlocks == <<"[{'type': 'text', 'text': ...}]">>

IsText(content) == content # ContentBlocks

\* what the generative model may return as content: a text (the empty text
\* is one of them) or content blocks
Replies == SeqsUpTo(ReplyLines, MaxLines) \cup {ContentBlocks}

\* the router model's reply, as the groups its two regular expressions
\* capture: "" when the line is absent or does not match
IntentLines == {"", "general", "Meditation"}
ConfidenceLines == {"", "0.5", "0.7", "1.5", "1.2.3"}
RouterReplies == [intent : IntentLines, confidence : ConfidenceLines]

\* float(): the value in hundredths, -1 for a ValueError
Float(s) ==
  CASE s = "0.5" -> 50
    [] s = "0.7" -> 70
    [] s = "1.5" -> 150
    [] OTHER -> -1

-----------------------------------------------------------------------------
(* RouterAgent *)

NamespaceOrder ==
  << "relationships", "money", "business", "feng_shui", "diet_food",
     "exercise_martial_arts", "meditation", "general" >>

namespace_map(ns) ==
  CASE ns = "relationships" ->
         <<"dating", "marriage", "family", "friendship", "love", "communication", "interpersonal">>
    [] ns = "money" ->
         <<"investing", "savings", "wealth", "finance", "budget", "financial", "prosperity">>
    [] ns = "business" ->
         <<"entrepreneurship", "startup", "management", "leadership", "career", "work">>
    [] ns = "feng_shui" ->
         <<"energy", "space", "harmony", "arrangement", "chi", "home", "environment">>
    [] ns = "diet_food" ->
         <<"nutrition", "eating", "health", "cooking", "meal", "diet", "food">>
    [] ns = "exercise_martial_arts" ->
         <<"training", "fitness", "shaolin", "kungfu", "workout", "martial", "exercise">>
    [] ns = "meditation" ->
         <<"mindfulness", "breathing", "zen", "peace", "calm", "spiritual", "meditation">>
    [] OTHER -> <<>>

confidence_threshold == 70
max_namespaces == 3
fallback == "general"
multi_namespace_keywords == <<"balance", "holistic", "life", "wellness">>
holistic_namespaces == <<"meditation", "relationships", "general">>

\* re.search on the two labelled lines, then strip() and float(); a
\* ValueError of float() is caught and gives the default pair
_parse_response(reply) ==
  IF reply.confidence # "" /\ Float(reply.confidence) < 0
  THEN <<"general", 50>>
  ELSE << IF reply.intent = "" THEN "general" ELSE reply.intent,
          IF reply.confidence = "" THEN 50 ELSE Float(reply.confidence) >>

NamespaceMatches(ns, intent, message) ==
  /\ ns # "general"
  /\ \/ Lower(intent) \in Range(namespace_map(ns))
     \/ ContainsAny(message, namespace_map(ns))

\* variant: the holistic keywords consulted only when the intent mapping
\* selected nothing
_select_namespaces_holistic_last(intent, confidence, message) ==
  LET matched == IF confidence >= confidence_threshold
                  THEN SelectSeq(NamespaceOrder,
                                 LAMBDA ns : NamespaceMatches(ns, intent, message))
                  ELSE <<>>
  IN  IF matched # <<>> THEN Take(matched, max_namespaces)
      ELSE IF ContainsAny(message, multi_namespace_keywords) THEN holistic_namespaces
      ELSE <<fallback>>

\* variant: the intent mapping applied whatever the confidence
_select_namespaces_any_confidence(intent, confidence, message) ==
  IF ContainsAny(message, multi_namespace_keywords)
  THEN holistic_namespaces
  ELSE LET matched == SelectSeq(NamespaceOrder,
                                LAMBDA ns : NamespaceMatches(ns, intent, message))
           selected == IF matched = <<>> THEN <<fallback>> ELSE matched
       IN  Take(selected, max_namespaces)

_select_namespaces(intent, confidence, message) ==
  IF ContainsAny(message, multi_namespace_keywords)
  THEN holistic_namespaces
  ELSE LET matched == IF confidence >= confidence_threshold
                      THEN SelectSeq(NamespaceOrder,
                                     LAMBDA ns : NamespaceMatches(ns, intent, message))
                      ELSE <<>>
           selected == IF matched = <<>> THEN <<fallback>> ELSE matched
       IN  Take(selected, max_namespaces)

\* variant: a turn that needs no retrieval goes straight to the Safety Gate
RouteNext_past_interpreter(namespaces) ==
  IF namespaces # <<>> /\ "general" \notin Range(namespaces)
  THEN "librarian" ELSE "safety"

RouteNext(namespaces) ==
  IF namespaces # <<>> /\ "general" \notin Range(namespaces)
  THEN "librarian" ELSE "interpreter"

\* RouterAgent.route after its model call returned `reply`
route(s, reply) ==
  LET parsed == _parse_response(reply)
      namespaces == _select_namespaces(parsed[1], parsed[2], s.user_message)
  IN  [s EXCEPT !.intent = parsed[1],
                !.confidence = parsed[2],
                !.selected_namespaces = namespaces,
                !.current_node = "router",
                !.next_node = RouteNext(namespaces)]

-----------------------------------------------------------------------------
(* LibrarianAgent *)

top_k == 5
score_threshold == 30

\* dict.get(key, default) on a payload
Get(payload, key, default) == IF key \in DOMAIN payload THEN payload[key] ELSE default

\* str.strip(), for the texts of the points
Strip(s) == IF s = "   " THEN "" ELSE s

\* the points a search may return: payload and score
Points ==
  { [payload |-> [content |-> "Breathe from the belly.",
                  source_title |-> "Qi Gong Basics",
                  source_url |-> "https://example.org/qigong",
                  transcript_timestamp |-> "12:45"],
     score |-> 90],
    [payload |-> [content |-> "Save before you spend.",
                  source_title |-> "Money Talk"],
     score |-> 50],
    [payload |-> [content |-> "   ",
                  source_title |-> "Blank Page"],
     score |-> 70] }

\* Qdrant returns at most `limit` points, each at or above score_threshold,
\* best first
SearchResults ==
  { h \in SeqsUpTo(Points, Min(MaxHits, top_k)) :
      /\ \A i \in DOMAIN h : h[i].score >= score_threshold
      /\ \A i \in DOMAIN h : i > 1 => h[i - 1].score >= h[i].score }

\* what _search_namespace meets: the collection is missing, a store call
\* raises (caught there, gives []), or the search returns points
SearchOutcomes ==
  {[kind |-> "missing", points |-> <<>>], [kind |-> "raises", points |-> <<>>]}
    \cup {[kind |-> "found", points |-> h] : h \in SearchResults}

\* variant: a search that failed still gives a point
_search_namespace_leaking(outcome) ==
  IF outcome.kind = "found" THEN outcome.points
  ELSE <<CHOOSE p \in Points : p.score = 90>>

_search_namespace(outcome) == IF outcome.kind = "found" THEN outcome.points ELSE <<>>

FormatChunk(p, namespace) ==
  [text |-> Get(p.payload, "content", ""),
   score |-> p.score,
   metadata |-> [namespace |-> namespace,
                 source_url |-> Get(p.payload, "source_url", ""),
                 source_title |-> Get(p.payload, "source_title", "Unknown Source"),
                 timestamp |-> Get(p.payload, "transcript_timestamp", "")]]

\* only the chunks with actual content are kept
_format_chunks(results, namespace) ==
  LET chunks == [i \in DOMAIN results |-> FormatChunk(results[i], namespace)]
  IN  SelectSeq(chunks, LAMBDA c : Strip(c.text) # "")

\* variant: x goes in front of the entries of its score
RECURSIVE InsertByScore_before_equals(_, _)
InsertByScore_before_equals(sorted, x) ==
  IF sorted = <<>> THEN <<x>>
  ELSE IF Head(sorted).score > x.score
       THEN <<Head(sorted)>> \o InsertByScore_before_equals(Tail(sorted), x)
       ELSE <<x>> \o sorted

\* x inserted into a list sorted by score descending, after its equals
RECURSIVE InsertByScore(_, _)
InsertByScore(sorted, x) ==
  IF sorted = <<>> THEN <<x>>
  ELSE IF Head(sorted).score >= x.score
       THEN <<Head(sorted)>> \o InsertByScore(Tail(sorted), x)
       ELSE <<x>> \o sorted

\* sorted(chunks, key=score, reverse=True): stable
RECURSIVE SortByScore(_)
SortByScore(chunks) ==
  IF chunks = <<>> THEN <<>>
  ELSE InsertByScore(SortByScore(SubSeq(chunks, 1, Len(chunks) - 1)), chunks[Len(chunks)])

\* variant: every entry kept
Unique_keeping_copies(s) == s

\* a list without the later copies of its entries (`if c not in citations`)
RECURSIVE Unique(_)
Unique(s) ==
  IF s = <<>> THEN <<>>
  ELSE LET front == Unique(SubSeq(s, 1, Len(s) - 1))
           last == s[Len(s)]
       IN  IF last \in Range(front) THEN front ELSE Append(front, last)

LibrarianCitation(chunk) ==
  [title |-> chunk.metadata.source_title,
   url |-> chunk.metadata.source_url,
   timestamp |-> chunk.metadata.timestamp]

\* LibrarianAgent._extract_citations
Librarian_extract_citations(chunks) ==
  LET titled == SelectSeq(chunks, LAMBDA c : c.metadata.source_title # "")
  IN  Unique([i \in DOMAIN titled |-> LibrarianCitation(titled[i])])

\* variant: the sorted list stored whole
RetrieveFinish_untruncated(s, chunks) ==
  LET top == SortByScore(chunks)
  IN  [s EXCEPT !.retrieved_chunks = top,
                !.citations = Librarian_extract_citations(top),
                !.current_node = "librarian",
                !.next_node = "interpreter"]

\* retrieve, once every namespace is searched: sort, truncate, cite
RetrieveFinish(s, chunks) ==
  LET top == Take(SortByScore(chunks), top_k)
  IN  [s EXCEPT !.retrieved_chunks = top,
                !.citations = Librarian_extract_citations(top),
                !.current_node = "librarian",
                !.next_node = "interpreter"]

\* retrieve, when the embedding call (or anything outside the per-namespace
\* try) raises
RetrieveFailed(s) ==
  [s EXCEPT !.retrieved_chunks = <<>>,
            !.error = "Retrieval failed"]

-----------------------------------------------------------------------------
(* QdrantService.add_document, called by create_document *)

\* the documents create_document is given; every content has at most
\* chunk_size (500) words
Documents ==
  [namespace : {"meditation"},
   title : {"Standing Meditation"},
   content : {"", "Stand like a tree."},
   youtube_url : {"", "https://youtu.be/standing"}]

\* chunk_text: nothing for an empty text, the text itself as the only chunk
\* when it has at most chunk_size words
chunk_text(text) == IF text = "" THEN <<>> ELSE <<text>>

\* the metadata create_document passes to add_document
DocumentMetadata(document) ==
  [document_id |-> 1, title |-> document.title, namespace |-> document.namespace]
    @@ (IF document.youtube_url # ""
        THEN [youtube_url |-> document.youtube_url, is_transcript |-> TRUE]
        ELSE <<>>)

\* the payload of the point of chunk number i (from 0) of a document
PointPayload(document_id, chunks, i, metadata) ==
  [document_id |-> document_id,
   chunk_index |-> i,
   chunk_text |-> chunks[i + 1],
   total_chunks |-> Len(chunks)] @@ metadata

\* add_document: one point per chunk is upserted into documents_<namespace>;
\* with no chunk it raises and stores nothing
add_document(stored, namespace, document_id, content, metadata) ==
  LET chunks == chunk_text(content)
  IN  IF chunks = <<>> THEN stored
      ELSE [stored EXCEPT ![namespace] =
              @ \o [k \in DOMAIN chunks |-> PointPayload(document_id, chunks, k - 1, metadata)]]

\* what a search of `namespace` meets: the points add_document stored there,
\* best first, or, when none was stored in this run, whatever the collection
\* holds
StoreOutcomes(stored, namespace) ==
  IF stored[namespace] = <<>> THEN SearchOutcomes
  ELSE {[kind |-> "found",
         points |-> Take([k \in DOMAIN stored[namespace] |->
                            [payload |-> stored[namespace][k], score |-> 80]], top_k)]}

-----------------------------------------------------------------------------
(* InterpreterAgent *)

streaming == TRUE

InterpreterApology ==
  <<"I apologize, but I'm having trouble generating a response right now. Please try rephrasing your question.">>

\* the sentence the system prompt tells the model to answer with when the
\* context does not answer the question
NoInformation ==
  <<"I don't have specific information about that topic in my knowledge base. Could you ask about something else or try rephrasing your question?">>

NoContext == <<"No relevant context found in the knowledge base.">>

\* "[i] text\nSource: title (timestamp)", and the YouTube lines of a chunk
\* that has a youtube_url
ContextPart(i, chunk) ==
  LET meta == chunk.metadata
      timestamp == Get(meta, "timestamp", "")
      youtube_url == Get(meta, "youtube_url", "")
      source_info == Get(meta, "source_title", "Unknown Source")
                       \o (IF timestamp # "" THEN " (" \o timestamp \o ")" ELSE "")
  IN  << "[" \o ToString(i) \o "] " \o chunk.text, "Source: " \o source_info >>
        \o (IF youtube_url # "" THEN <<"YouTube: " \o youtube_url>> ELSE <<>>)
        \o (IF youtube_url # "" /\ timestamp # ""
            THEN <<"Use this format for YouTube links: " \o youtube_url \o "&t=XXXs">>
            ELSE <<>>)

\* "\n\n".join(parts)
RECURSIVE JoinParts(_, _)
JoinParts(chunks, i) ==
  IF i > Len(chunks) THEN <<>>
  ELSE (IF i > 1 THEN <<"">> ELSE <<>>) \o ContextPart(i, chunks[i]) \o JoinParts(chunks, i + 1)

_build_context(chunks) == IF chunks = <<>> THEN NoContext ELSE JoinParts(chunks, 1)

\* what the model is asked: the question and the context of the system prompt
_build_interpretation_prompt(question, context) ==
  [question |-> question, context |-> context]

\* what the Interpreter's model call gives: a content, or it raises
InterpreterOutcomes == [ok : {TRUE}, text : Replies] \cup {[ok |-> FALSE, text |-> <<>>]}

knowledge_base_keywords ==
  << "what documents", "what do you have access to", "what's in your knowledge base",
     "what information do you have", "list documents", "show me what", "what topics",
     "what can you tell me about" >>

_is_knowledge_base_query(question) == ContainsAny(question, knowledge_base_keywords)

\* what _handle_knowledge_base_query finds in the store
KnowledgeBaseOutcomes == {"no_collections", "listed", "unreadable", "raises"}

KnowledgeBaseText(outcome) ==
  CASE outcome = "no_collections" ->
         <<"I currently don't have access to any documents in my knowledge base.">>
    [] outcome = "listed" ->
         << "Here's what I have access to in my knowledge base:",
            "",
            "**Meditation Documents:**",
            "- Qi Gong Basics",
            "",
            "Feel free to ask me questions about any of these topics, and I'll provide guidance based on the specific content in my knowledge base." >>
    [] outcome = "unreadable" ->
         <<"I have access to a knowledge base, but I'm having trouble retrieving the specific document list right now. Please ask me about any topics you're interested in, and I'll see what information I can provide.">>
    [] OTHER ->
         <<"I have a knowledge base with various documents and teachings, but I'm having trouble accessing the full list right now. Please ask me about specific topics you're interested in.">>

\* the early return and the except branch leave current_node and next_node alone
_handle_knowledge_base_query(s, outcome) ==
  LET answered == [s EXCEPT !.final_response = KnowledgeBaseText(outcome),
                            !.citations = <<>>]
  IN  IF outcome \in {"listed", "unreadable"}
      THEN [answered EXCEPT !.current_node = "interpreter", !.next_node = "safety"]
      ELSE answered

\* variant: the namespace of the chunk is part of its citation
InterpreterCitation_with_namespace(chunk) ==
  LET youtube_url == Get(chunk.metadata, "youtube_url", "")
      source_url == Get(chunk.metadata, "source_url", "")
  IN  [title |-> chunk.metadata.source_title,
       url |-> IF youtube_url # "" THEN youtube_url ELSE source_url,
       youtube_url |-> youtube_url,
       timestamp |-> Get(chunk.metadata, "timestamp", ""),
       namespace |-> chunk.metadata.namespace]

InterpreterCitation(chunk) ==
  LET youtube_url == Get(chunk.metadata, "youtube_url", "")
      source_url == Get(chunk.metadata, "source_url", "")
  IN  [title |-> chunk.metadata.source_title,
       url |-> IF youtube_url # "" THEN youtube_url ELSE source_url,
       youtube_url |-> youtube_url,
       timestamp |-> Get(chunk.metadata, "timestamp", "")]

\* InterpreterAgent._extract_citations
Interpreter_extract_citations(chunks) ==
  LET titled == SelectSeq(chunks, LAMBDA c : Get(c.metadata, "source_title", "") # "")
  IN  Unique([i \in DOMAIN titled |-> InterpreterCitation(titled[i])])

\* interpret, after its model call returned `reply`
InterpretDone(s, reply) ==
  [s EXCEPT !.response_tokens = IF streaming THEN <<reply>> ELSE @,
            !.final_response = reply,
            !.citations = Interpreter_extract_citations(s.retrieved_chunks),
            !.current_node = "interpreter",
            !.next_node = "safety"]

\* variant: the except branch without its fallback text
InterpretFailed_no_fallback(s) ==
  [s EXCEPT !.citations = <<>>,
            !.error = "Interpretation failed"]

\* variant: the except branch leaves the citations of the Librarian
InterpretFailed_keeping_citations(s) ==
  [s EXCEPT !.final_response = InterpreterApology,
            !.error = "Interpretation failed"]

\* interpret, when anything in it raises
InterpretFailed(s) ==
  [s EXCEPT !.final_response = InterpreterApology,
            !.citations = <<>>,
            !.error = "Interpretation failed"]

-----------------------------------------------------------------------------
(* SafetyAgent *)

\* the leading memo emoji of the four templates is left out
disclaimers(type) ==
  CASE type = "medical" ->
         "Note: This information is based on Traditional Chinese Medicine principles and general wellness practices. It is not intended as medical advice. Always consult with qualified healthcare professionals for medical conditions or before making significant changes to your health regimen."
    [] type = "financial" ->
         "Note: This content discusses general financial principles and strategies. It is not personalized financial advice. Investment carries risks, and you should consult with qualified financial advisors before making investment decisions."
    [] type = "legal" ->
         "Note: This information is for educational purposes only and does not constitute legal advice. For legal matters, please consult with a qualified attorney who can address your specific situation."
    [] type = "exercise" ->
         "Note: These exercises and physical practices should be approached gradually and with proper form. Consider your current fitness level and any health conditions. Consult with healthcare providers before beginning new exercise programs, especially if you have pre-existing conditions."
    [] OTHER -> ""

safety_keywords(domain) ==
  CASE domain = "medical" ->
         << "diagnose", "diagnosis", "disease", "illness", "symptoms", "cure", "treatment",
            "medicine", "medication", "prescription", "doctor", "medical", "health condition",
            "pain", "sick", "fever", "infection", "cancer", "diabetes", "heart disease" >>
    [] domain = "financial" ->
         << "invest", "investment", "stocks", "bonds", "portfolio", "financial advice",
            "buy", "sell", "trading", "market", "profit", "loss", "tax", "retirement",
            "savings", "loan", "mortgage", "insurance" >>
    [] domain = "legal" ->
         << "legal advice", "lawsuit", "contract", "law", "legal", "attorney", "lawyer",
            "court", "judge", "sue", "rights", "violation", "illegal", "criminal" >>
    [] domain = "exercise" ->
         << "exercise", "workout", "training", "martial arts", "shaolin", "kung fu",
            "physical practice", "movement", "stretching", "qi gong", "meditation",
            "breathing", "posture", "form", "routine", "practice" >>
    [] domain = "harmful" ->
         << "suicide", "self-harm", "kill", "die", "death", "violence", "abuse",
            "illegal", "drugs", "weapon", "hate", "discrimination" >>
    [] OTHER -> <<>>

advice_indicators(domain) ==
  CASE domain = "medical" -> <<"you should", "i recommend", "take this", "stop taking">>
    [] domain = "financial" -> <<"you should invest", "buy", "sell", "i recommend investing">>
    [] domain = "legal" -> <<"you should sue", "file a lawsuit", "this is illegal", "your rights are">>
    [] domain = "exercise" -> <<"you should do", "practice", "try this", "start with">>
    [] OTHER -> <<>>

dismissive_phrases ==
  << "that's stupid", "obviously", "you're wrong", "that's ridiculous",
     "don't be silly", "that's dumb", "you should know" >>

\* the four domains in the order _detect_violations checks them
DisclaimerDomains == <<"medical", "financial", "legal", "exercise">>

\* variant: a topic keyword is enough
Triggers_on_topic(domain, response) == ContainsAny(response, safety_keywords(domain))

\* a domain triggers: one of its topic keywords and one of its advice phrases
Triggers(domain, response) ==
  /\ ContainsAny(response, safety_keywords(domain))
  /\ ContainsAny(response, advice_indicators(domain))

\* the first keyword of the list found in the response
FirstFound(kws, response) ==
  kws[CHOOSE i \in DOMAIN kws :
        /\ Contains(response, kws[i])
        /\ \A j \in 1..(i - 1) : ~Contains(response, kws[j])]

_check_tone(response) == ContainsAny(response, dismissive_phrases)

\* each triggering domain overwrites violations["type"] in turn
DisclaimerType(response) ==
  LET triggered == SelectSeq(DisclaimerDomains, LAMBDA d : Triggers(d, response))
  IN  IF triggered = <<>> THEN None ELSE triggered[Len(triggered)]

\* variant: the harmful-content scan left out
_detect_violations_unblocked(response) ==
  [block_response |-> FALSE,
   needs_disclaimer |-> DisclaimerType(response) # None,
   tone_adjustment |-> _check_tone(response),
   type |-> DisclaimerType(response),
   reason |-> IF _check_tone(response) THEN "tone_adjustment_needed" ELSE None]

_detect_violations(response) ==
  IF ContainsAny(response, safety_keywords("harmful"))
  THEN [block_response |-> TRUE, needs_disclaimer |-> FALSE, tone_adjustment |-> FALSE,
        type |-> None,
        reason |-> "harmful_content_" \o FirstFound(safety_keywords("harmful"), response)]
  ELSE [block_response |-> FALSE,
        needs_disclaimer |-> DisclaimerType(response) # None,
        tone_adjustment |-> _check_tone(response),
        type |-> DisclaimerType(response),
        reason |-> IF _check_tone(response) THEN "tone_adjustment_needed" ELSE None]

SafeFallbackHarmful ==
  <<"I understand you're looking for guidance, but I'm not able to provide advice on that topic. If you're struggling with difficult thoughts, please reach out to a mental health professional or crisis helpline for support.">>

SafeFallbackMedical ==
  <<"I appreciate your question about health matters. While I can share general wellness wisdom, I'm not qualified to provide medical advice. Please consult with healthcare professionals for any health concerns.">>

SafeFallbackGeneric ==
  <<"I apologize, but I'm not able to provide guidance on that particular topic. Is there something else I can help you with today?">>

_get_safe_fallback(violations) ==
  LET reason == violations.reason
  IN  IF "harmful" \in Substrings(reason) THEN SafeFallbackHarmful
      ELSE IF "medical" \in Substrings(reason) THEN SafeFallbackMedical
      ELSE SafeFallbackGeneric

_get_disclaimer(violation_type) == disclaimers(violation_type)

\* response + "\n\n" + disclaimer
AppendDisclaimer(response, disclaimer) ==
  IF disclaimer # "" THEN response \o <<"", disclaimer>> ELSE response

SafetyDone(s) ==
  [s EXCEPT !.current_node = "safety", !.next_node = None, !.status = "complete"]

\* what the tone rewrite call gives: a text of the model, or it raises
RewriteLines ==
  { "Breathe deeply and stay present.",
    "A balanced diet supports your energy." }

Rewrites == SeqsUpTo(RewriteLines, MaxLines)

ToneOutcomes == [ok : {TRUE}, text : Rewrites] \cup {[ok |-> FALSE, text |-> <<>>]}

\* variant: a failed rewrite call leaves no response
_adjust_tone_no_fallback(response, outcome) == outcome.text

\* _adjust_tone falls back to the original response
_adjust_tone(response, outcome) == IF outcome.ok THEN outcome.text ELSE response

\* the except branch of check_safety: flags and error only
SafetyFailed(s) ==
  [s EXCEPT !.safety_flags = <<"safety_check_failed">>,
            !.error = "Safety check failed"]

\* variant: the rewritten response is scanned for harmful content again
check_safety_rescanning(s, tone) ==
  LET response == s.final_response
      violations == _detect_violations(response)
      adjusted == _adjust_tone(response, tone)
  IN  IF response = <<>>
      THEN SafetyDone([s EXCEPT !.safety_flags = <<"empty_response">>])
      ELSE IF ~IsText(response)
      THEN SafetyFailed(s)
      ELSE IF violations.block_response
      THEN SafetyDone([s EXCEPT !.final_response = _get_safe_fallback(violations),
                                !.safety_flags = <<"blocked", violations.reason>>])
      ELSE IF violations.needs_disclaimer
      THEN SafetyDone([s EXCEPT !.final_response =
                                   AppendDisclaimer(response, _get_disclaimer(violations.type)),
                                !.safety_flags = <<"disclaimer_added_" \o violations.type>>])
      ELSE IF violations.tone_adjustment /\ _detect_violations(adjusted).block_response
      THEN SafetyDone([s EXCEPT !.final_response = _get_safe_fallback(_detect_violations(adjusted)),
                                !.safety_flags = <<"blocked", _detect_violations(adjusted).reason>>])
      ELSE IF violations.tone_adjustment
      THEN SafetyDone([s EXCEPT !.final_response = adjusted,
                                !.safety_flags = <<"tone_adjusted">>])
      ELSE SafetyDone([s EXCEPT !.safety_flags = <<"safe">>])

\* SafetyAgent.check_safety; `tone` is the outcome of the rewrite call, read
\* on the tone branch only.  Nothing in its try block raises on a text (the
\* rewrite call is caught in _adjust_tone); on content blocks
\* response.lower() raises and the except branch is taken
check_safety(s, tone) ==
  LET response == s.final_response
      violations == _detect_violations(response)
  IN  IF response = <<>>
      THEN SafetyDone([s EXCEPT !.safety_flags = <<"empty_response">>])
      ELSE IF ~IsText(response)
      THEN SafetyFailed(s)
      ELSE IF violations.block_response
      THEN SafetyDone([s EXCEPT !.final_response = _get_safe_fallback(violations),
                                !.safety_flags = <<"blocked", violations.reason>>])
      ELSE IF violations.needs_disclaimer
      THEN SafetyDone([s EXCEPT !.final_response =
                                   AppendDisclaimer(response, _get_disclaimer(violations.type)),
                                !.safety_flags = <<"disclaimer_added_" \o violations.type>>])
      ELSE IF violations.tone_adjustment
      THEN SafetyDone([s EXCEPT !.final_response = _adjust_tone(response, tone),
                                !.safety_flags = <<"tone_adjusted">>])
      ELSE SafetyDone([s EXCEPT !.safety_flags = <<"safe">>])

-----------------------------------------------------------------------------
(* OrchestratorAgent.process and the graph *)

ProcessApology ==
  <<"I apologize, but I encountered an error processing your request. Please try again.">>

\* variant: the earlier user messages are put in front of the query
initial_state_with_history(query, chat_history) ==
  LET earlier == SelectSeq(chat_history, LAMBDA m : m.role = "user")
  IN  [user_message |-> (IF earlier = <<>> THEN <<>> ELSE earlier[1].content) \o query,
       intent |-> None,
       confidence |-> 0,
       selected_namespaces |-> <<>>,
       retrieved_chunks |-> <<>>,
       safety_flags |-> <<>>,
       response_tokens |-> <<>>,
       final_response |-> <<>>,
       citations |-> <<>>,
       current_node |-> "",
       next_node |-> None,
       error |-> None,
       status |-> "processing"]

\* the fields of ConversationState that some stage writes or reads, as
\* process(query, chat_history) fills them: chat_history is not used
initial_state(query, chat_history) ==
  [user_message |-> query,
   intent |-> None,
   confidence |-> 0,
   selected_namespaces |-> <<>>,
   retrieved_chunks |-> <<>>,
   safety_flags |-> <<>>,
   response_tokens |-> <<>>,
   final_response |-> <<>>,
   citations |-> <<>>,
   current_node |-> "",
   next_node |-> None,
   error |-> None,
   status |-> "processing"]

\* the dict process returns when the graph returned final_state
process_return(final_state) ==
  [content |-> final_state.final_response,
   agents_used |-> final_state.selected_namespaces,
   sources |-> final_state.citations,
   metadata |-> [intent |-> final_state.intent,
                 confidence |-> final_state.confidence,
                 namespaces |-> final_state.selected_namespaces,
                 safety_flags |-> final_state.safety_flags]]

\* the dict process returns when the graph raised
process_except(e) ==
  [content |-> ProcessApology,
   error |-> e,
   agents_used |-> <<>>,
   sources |-> <<>>]

Event(node, ev, ok, out) == [node |-> node, ev |-> ev, ok |-> ok, out |-> out]

Started(node) == Event(node, "start", TRUE, "none")

\* how a text reply is logged: "empty" or "text"
Shape(text) == IF text = <<>> THEN "empty" ELSE "text"

\* what the collaborators (router model, embedder, store, Interpreter's
\* model, tone rewrite) were asked so far and what they answered
\* (kept only when the caller is going to send its query again)
NoCalls ==
  [keep |-> FALSE,
   fixed |-> [router |-> <<>>, embed |-> <<>>, search |-> <<>>,
              store |-> <<>>, llm |-> <<>>, tone |-> <<>>],
   router |-> {}, embed |-> {}, search |-> {}, store |-> {}, llm |-> {}, tone |-> {}]

Call(input, out) == [in |-> input, out |-> out]

\* the answers a collaborator can give to `input`: its fixed answer when it
\* is a stub that always answers the same, else the one it gave before, or
\* any of `free` when it was never asked this
Answers(m, collaborator, input, free) ==
  LET known == {c.out : c \in {d \in m[collaborator] : d.in = input}}
  IN  IF m.fixed[collaborator] # <<>> THEN {m.fixed[collaborator][1]}
      ELSE IF known = {} THEN free ELSE known

Remember(m, collaborator, input, out) ==
  IF m.keep THEN [m EXCEPT ![collaborator] = @ \cup {Call(input, out)}] ELSE m

\* what the router's model call gives: the captured groups, or it raises
RouterOutcomes ==
  [ok : {TRUE}, reply : RouterReplies]
    \cup {[ok |-> FALSE, reply |-> [intent |-> "", confidence |-> ""]]}

\* no process() call yet
NoCall == [query |-> <<>>, chat_history |-> <<>>]

\* a process() call that was not made
NoTurn ==
  [pc |-> "idle", state |-> initial_state(<<>>, <<>>), all_chunks |-> <<>>, ns_idx |-> 0,
   result |-> <<>>, log |-> <<>>, call |-> NoCall]

NoCollections == [namespace \in Range(NamespaceOrder) |-> <<>>]

Init ==
  /\ pc = "idle"
  /\ state = initial_state(<<>>, <<>>)
  /\ all_chunks = <<>>
  /\ ns_idx = 0
  /\ result = <<>>
  /\ log = <<>>
  /\ memo = NoCalls
  /\ call = NoCall
  /\ other = NoTurn
  /\ collections = NoCollections

\* process(query): a fresh state enters the graph at the router
Process ==
  /\ pc = "idle"
  /\ \E query \in Messages, chat_history \in {<<>>} :
       /\ state' = initial_state(query, chat_history)
       /\ call' = [query |-> query, chat_history |-> chat_history]
  /\ pc' = "router"
  /\ all_chunks' = <<>>
  /\ ns_idx' = 0
  /\ result' = <<>>
  /\ log' = <<>>
  /\ UNCHANGED <<memo, other, collections>>

\* variant: the chunk list of the previous turn is kept
ProcessAgain_keeping_chunks ==
  /\ pc = "done"
  /\ Len(result) < MaxTurns
  /\ state' = initial_state(call.query, call.chat_history)
  /\ pc' = "router"
  /\ ns_idx' = 0
  /\ log' = <<>>
  /\ UNCHANGED <<all_chunks, result, memo, call, other, collections>>

\* process(query) once more with the query of the turn that just ended:
\* again a fresh state, and the locals of the stages start anew
ProcessAgain ==
  /\ pc = "done"
  /\ Len(result) < MaxTurns
  /\ state' = initial_state(call.query, call.chat_history)
  /\ pc' = "router"
  /\ all_chunks' = <<>>
  /\ ns_idx' = 0
  /\ log' = <<>>
  /\ UNCHANGED <<result, memo, call, other, collections>>

\* the router node: the model call is not guarded, so its exception leaves
\* the graph and is caught by process
Route ==
  /\ pc = "router"
  /\ \E out \in Answers(memo, "router", state.user_message, RouterOutcomes) :
       /\ memo' = Remember(memo, "router", state.user_message, out)
       /\ IF out.ok
          THEN /\ state' = route(state, out.reply)
               /\ pc' = state'.next_node
               /\ result' = result
               /\ log' = log \o <<Started("router"), Event("router", "llm", TRUE, "text")>>
          ELSE /\ state' = state
               /\ pc' = "done"
               /\ result' = Append(result, process_except("model call failed"))
               /\ log' = log \o <<Started("router"), Event("router", "llm", FALSE, "none")>>
  /\ UNCHANGED <<all_chunks, ns_idx, call, other, collections>>

\* the librarian node up to its first await: the embedding call
LibrarianEmbed ==
  /\ pc = "librarian"
  /\ \E ok \in Answers(memo, "embed", state.user_message, BOOLEAN) :
       /\ memo' = Remember(memo, "embed", state.user_message, ok)
       /\ log' = log \o <<Started("librarian"), Event("librarian", "embed", ok, "none")>>
       /\ IF ~ok
          THEN /\ state' = RetrieveFailed(state)
               /\ pc' = "interpreter"
          ELSE IF state.selected_namespaces = <<>>
          THEN /\ state' = RetrieveFinish(state, <<>>)
               /\ pc' = "interpreter"
          ELSE /\ state' = state
               /\ pc' = "librarian_call"
  /\ UNCHANGED <<all_chunks, ns_idx, result, call, other, collections>>

\* the loop over selected_namespaces calls _search_namespace for the next
\* namespace: the loop body awaits the call, so the next call is made only
\* when no search is outstanding
LibrarianSearchStart ==
  /\ pc = "librarian_call"
  /\ ns_idx < Len(state.selected_namespaces)
  /\ pc' = "librarian_search"
  /\ UNCHANGED <<state, all_chunks, ns_idx, result, log, memo, call, other, collections>>

\* the outstanding _search_namespace call returns and the loop body ends;
\* after the last namespace all_chunks is sorted and its first top_k are
\* stored and cited
LibrarianSearch ==
  /\ pc = "librarian_search"
  /\ LET namespace == state.selected_namespaces[ns_idx + 1]
         search == [namespace |-> namespace, query |-> state.user_message]
     IN  \E outcome \in Answers(memo, "search", search, StoreOutcomes(collections, namespace)) :
           LET chunks == all_chunks \o _format_chunks(_search_namespace(outcome), namespace)
           IN  /\ memo' = Remember(memo, "search", search, outcome)
               /\ log' = Append(log, Event("librarian", "search", outcome.kind # "raises", outcome.kind))
               /\ IF ns_idx + 1 = Len(state.selected_namespaces)
                  THEN /\ state' = RetrieveFinish(state, chunks)
                       /\ all_chunks' = SortByScore(chunks)
                       /\ ns_idx' = ns_idx + 1
                       /\ pc' = "interpreter"
                  ELSE /\ state' = state
                       /\ all_chunks' = chunks
                       /\ ns_idx' = ns_idx + 1
                       /\ pc' = "librarian_call"
  /\ UNCHANGED <<result, call, other, collections>>

\* the interpreter node
Interpret ==
  /\ pc = "interpreter"
  /\ IF _is_knowledge_base_query(state.user_message)
     THEN \E outcome \in Answers(memo, "store", "documents", KnowledgeBaseOutcomes) :
            /\ memo' = Remember(memo, "store", "documents", outcome)
            /\ state' = _handle_knowledge_base_query(state, outcome)
            /\ log' = log \o <<Started("interpreter"),
                               Event("interpreter", "store", outcome # "raises", "none")>>
     ELSE LET prompt == _build_interpretation_prompt(state.user_message,
                                                     _build_context(state.retrieved_chunks))
          IN  \E out \in Answers(memo, "llm", prompt, InterpreterOutcomes) :
                /\ memo' = Remember(memo, "llm", prompt, out)
                /\ IF out.ok
                   THEN /\ state' = InterpretDone(state, out.text)
                        /\ log' = log \o <<Started("interpreter"),
                                           Event("interpreter", "llm", TRUE, Shape(out.text))>>
                   ELSE /\ state' = InterpretFailed(state)
                        /\ log' = log \o <<Started("interpreter"),
                                           Event("interpreter", "llm", FALSE, "none")>>
  /\ pc' = "safety"
  /\ UNCHANGED <<all_chunks, ns_idx, result, call, other, collections>>

NeedsToneRepair(response) ==
  /\ response # <<>>
  /\ IsText(response)
  /\ ~_detect_violations(response).block_response
  /\ ~_detect_violations(response).needs_disclaimer
  /\ _detect_violations(response).tone_adjustment

\* the safety node, the last of the graph: process returns its state
CheckSafety ==
  /\ pc = "safety"
  /\ IF NeedsToneRepair(state.final_response)
     THEN \E tone \in Answers(memo, "tone", state.final_response, ToneOutcomes) :
            /\ memo' = Remember(memo, "tone", state.final_response, tone)
            /\ state' = check_safety(state, tone)
            /\ log' = log \o <<Started("safety"),
                               Event("safety", "llm", tone.ok,
                                     IF tone.ok THEN Shape(tone.text) ELSE "none")>>
     ELSE /\ state' = check_safety(state, [ok |-> FALSE, text |-> <<>>])
          /\ log' = Append(log, Started("safety"))
          /\ UNCHANGED memo
  /\ pc' = "done"
  /\ result' = Append(result, process_return(state'))
  /\ UNCHANGED <<all_chunks, ns_idx, call, other, collections>>

Next ==
  \/ Process
  \/ Route
  \/ LibrarianEmbed
  \/ LibrarianSearchStart
  \/ LibrarianSearch
  \/ Interpret
  \/ CheckSafety

Spec == Init /\ [][Next]_vars

\* the turns of a caller that sends its query MaxTurns times
NextRepeat ==
  \/ Process
  \/ ProcessAgain
  \/ Route
  \/ LibrarianEmbed
  \/ LibrarianSearchStart
  \/ LibrarianSearch
  \/ Interpret
  \/ CheckSafety

InitRepeat ==
  /\ pc = "idle"
  /\ state = initial_state(<<>>, <<>>)
  /\ all_chunks = <<>>
  /\ ns_idx = 0
  /\ result = <<>>
  /\ log = <<>>
  /\ memo = [NoCalls EXCEPT !.keep = TRUE]
  /\ call = NoCall
  /\ other = NoTurn
  /\ collections = NoCollections

SpecRepeat == InitRepeat /\ [][NextRepeat]_vars

\* create_document: the document goes to the vector store
AddDocument ==
  /\ pc = "idle"
  /\ \A namespace \in DOMAIN collections : Len(collections[namespace]) < MaxDocuments
  /\ \E document \in Documents :
       collections' = add_document(collections, document.namespace, "vector-id",
                                   document.content, DocumentMetadata(document))
  /\ UNCHANGED <<pc, state, all_chunks, ns_idx, result, log, memo, call, other>>

\* a turn over a store into which documents were ingested
NextIngest ==
  \/ AddDocument
  \/ Process
  \/ Route
  \/ LibrarianEmbed
  \/ LibrarianSearchStart
  \/ LibrarianSearch
  \/ Interpret
  \/ CheckSafety

SpecIngest == Init /\ [][NextIngest]_vars

\* the chat history create_message passes: the earlier messages of the chat
Histories ==
  { <<>>,
    << [role |-> "user", content |-> <<"How do I find Balance in my Life?">>],
       [role |-> "assistant", content |-> <<"Daily practice brings calm.">>] >> }

\* the running process() call, as it is kept while another one runs
ThisTurn ==
  [pc |-> pc, state |-> state, all_chunks |-> all_chunks, ns_idx |-> ns_idx,
   result |-> result, log |-> log, call |-> call]

\* a second request calls process() on the same orchestrator while the
\* first call is suspended at an await (or has returned)
ProcessConcurrently ==
  /\ pc # "idle"
  /\ other = NoTurn
  /\ \E query \in Messages, chat_history \in Histories :
       /\ state' = initial_state(query, chat_history)
       /\ call' = [query |-> query, chat_history |-> chat_history]
  /\ pc' = "router"
  /\ all_chunks' = <<>>
  /\ ns_idx' = 0
  /\ result' = <<>>
  /\ log' = <<>>
  /\ other' = ThisTurn
  /\ UNCHANGED <<memo, collections>>

\* variant: the two calls work on one ConversationState
Switch_sharing_state ==
  /\ other # NoTurn
  /\ pc' = other.pc
  /\ state' = state
  /\ all_chunks' = other.all_chunks
  /\ ns_idx' = other.ns_idx
  /\ result' = other.result
  /\ log' = other.log
  /\ call' = other.call
  /\ other' = ThisTurn
  /\ UNCHANGED <<memo, collections>>

\* the event loop suspends the running call at its await and resumes the
\* other one, with its own initial_state, locals and return value
Switch ==
  /\ other # NoTurn
  /\ pc' = other.pc
  /\ state' = other.state
  /\ all_chunks' = other.all_chunks
  /\ ns_idx' = other.ns_idx
  /\ result' = other.result
  /\ log' = other.log
  /\ call' = other.call
  /\ other' = ThisTurn
  /\ UNCHANGED <<memo, collections>>

\* collaborators that give the same answer to every call
FixedCollaborators ==
  [router : {<<o>> : o \in {r \in RouterOutcomes :
                              \/ ~r.ok
                              \/ r.reply \in {[intent |-> "", confidence |-> ""],
                                              [intent |-> "Meditation", confidence |-> "0.7"]}}},
   embed : {<<TRUE>>, <<FALSE>>},
   search : {<<o>> : o \in {f \in SearchOutcomes :
                              \/ f.kind = "raises"
                              \/ /\ f.kind = "found"
                                 /\ Len(f.points) = MaxHits
                                 /\ \A i \in DOMAIN f.points : Strip(f.points[i].payload.content) # ""
                                 /\ f.points[1] # f.points[Len(f.points)]}},
   store : {<<"listed">>},
   llm : {<<o>> : o \in {i \in InterpreterOutcomes :
                           \/ ~i.ok
                           \/ i.text \in {<<"Breathe deeply and stay present.">>,
                                          <<"Obviously, patience matters.">>}}},
   tone : {<<o>> : o \in {t \in ToneOutcomes :
                            ~t.ok \/ t.text = <<"Breathe deeply and stay present.">>}}]

\* two process() calls on one orchestrator, interleaved at their awaits
NextConcurrent ==
  \/ Process
  \/ ProcessConcurrently
  \/ Switch
  \/ Route
  \/ LibrarianEmbed
  \/ LibrarianSearchStart
  \/ LibrarianSearch
  \/ Interpret
  \/ CheckSafety

InitConcurrent ==
  /\ pc = "idle"
  /\ state = initial_state(<<>>, <<>>)
  /\ all_chunks = <<>>
  /\ ns_idx = 0
  /\ result = <<>>
  /\ log = <<>>
  /\ \E fixed \in FixedCollaborators : memo = [NoCalls EXCEPT !.fixed = fixed]
  /\ call = NoCall
  /\ other = NoTurn
  /\ collections = NoCollections

SpecConcurrent == InitConcurrent /\ [][NextConcurrent]_vars

-----------------------------------------------------------------------------
(* Properties of a turn *)

Happened(e) == e \in Range(log)

Routed == Happened(Event("router", "llm", TRUE, "text"))

RouterModelFailed == Happened(Event("router", "llm", FALSE, "none"))

\* the text the Interpreter's model call returned, when it returned one
InterpreterReplied == state.response_tokens # <<>>

InterpreterReply == state.response_tokens[1]

HarmfulIn(text) ==
  \E kw \in Range(safety_keywords("harmful")) :
    \E i \in DOMAIN text : kw \in Substrings(Lower(text[i]))

RefusalTemplates == {SafeFallbackHarmful, SafeFallbackMedical, SafeFallbackGeneric}

TriggeredDomains(text) == SelectSeq(DisclaimerDomains, LAMBDA d : Triggers(d, text))

\* C2: when several disclaimer domains trigger on a non-blocked response,
\* only the disclaimer of the first one in the order medical, financial,
\* legal, exercise is appended and flagged.
C2_FirstTriggeringDomainWins ==
  (/\ pc = "done"
   /\ InterpreterReplied
   /\ ~HarmfulIn(InterpreterReply)
   /\ TriggeredDomains(InterpreterReply) # <<>>) =>
    LET first == TriggeredDomains(InterpreterReply)[1]
    IN  /\ state.safety_flags = <<"disclaimer_added_" \o first>>
        /\ result[1].content = InterpreterReply \o <<"", disclaimers(first)>>

\* C3, as stated: process always returns a result whose content is a
\* non-empty text, whichever calls failed.
C3_ContentNeverEmpty ==
  pc = "done" => (Len(result) = 1 /\ result[1].content # <<>>)

ModelReturnedEmpty ==
  \/ Happened(Event("interpreter", "llm", TRUE, "empty"))
  \/ Happened(Event("safety", "llm", TRUE, "empty"))

\* C3, amended: process always returns a result, whichever calls failed, and
\* its content is empty only when a generative-model call that succeeded (the
\* Interpreter's, or the tone rewrite) returned the empty text.
C3_ContentEmptyOnlyFromModel ==
  pc = "done" =>
    /\ Len(result) = 1
    /\ result[1].content = <<>> => ModelReturnedEmpty

C3_Witness ==
  /\ pc = "done"
  /\ Happened(Event("librarian", "embed", FALSE, "none"))
  /\ Happened(Event("interpreter", "llm", FALSE, "none"))
  /\ result[1].content = InterpreterApology

\* C4: whenever a stage recorded a failure in state["error"], the result
\* process returns carries an "error" field.
C4_ErrorDiagnosticReturned ==
  (pc = "done" /\ state.error # None) => "error" \in DOMAIN result[1]

\* C5: a turn ends with final_response written and status "complete", or
\* with status "error", and never both; never with status "processing" or
\* "streaming".
C5_TurnEndsResolved ==
  pc = "done" =>
    /\ state.status \in {"complete", "error"}
    /\ (state.status = "complete") => Happened(Started("interpreter"))

\* C6: when the router's model call fails the turn is still routed to
\* (general, 0.5, [general]), nothing propagates out of the router, and the
\* Interpreter and the Safety Gate still run.
C6_RouterFailureStillRoutes ==
  (pc = "done" /\ RouterModelFailed) =>
    /\ state.intent = "general"
    /\ state.confidence = 50
    /\ state.selected_namespaces = <<"general">>
    /\ Happened(Started("interpreter"))
    /\ Happened(Started("safety"))
    /\ "error" \notin DOMAIN result[1]

HolisticMessage(message) ==
  \E kw \in {"balance", "holistic", "life", "wellness"} :
    \E i \in DOMAIN message : kw \in Substrings(Lower(message[i]))

\* C7: for a message whose lowercase form contains a holistic keyword the
\* selected namespaces are exactly [meditation, relationships, general],
\* whatever intent and confidence the model's reply gives.
C7_HolisticSelectsFixedList ==
  (Routed /\ HolisticMessage(state.user_message)) =>
    state.selected_namespaces = <<"meditation", "relationships", "general">>

C7_Witness ==
  /\ Routed
  /\ HolisticMessage(state.user_message)
  /\ state.intent = "Meditation"
  /\ state.confidence >= confidence_threshold
  /\ state.selected_namespaces = <<"meditation", "relationships", "general">>

MatchesNamespaceKeyword(message) ==
  \E ns \in Range(NamespaceOrder) :
    \E kw \in Range(namespace_map(ns)) :
      \E i \in DOMAIN message : kw \in Substrings(Lower(message[i]))

\* C8, as stated: below the confidence threshold, a message that matches no
\* namespace keyword is routed to exactly [general].
C8_LowConfidenceSelectsGeneral ==
  (/\ Routed
   /\ state.confidence < confidence_threshold
   /\ ~MatchesNamespaceKeyword(state.user_message)) =>
    state.selected_namespaces = <<"general">>

\* C8, amended: below the confidence threshold, a message that matches no
\* namespace keyword and contains no holistic keyword is routed to exactly
\* [general].
C8_LowConfidenceNoHolisticSelectsGeneral ==
  (/\ Routed
   /\ state.confidence < confidence_threshold
   /\ ~MatchesNamespaceKeyword(state.user_message)
   /\ ~HolisticMessage(state.user_message)) =>
    state.selected_namespaces = <<"general">>

C8_Witness ==
  /\ Routed
  /\ state.intent = "Meditation"
  /\ state.confidence = 50
  /\ state.user_message = <<"Hello there">>
  /\ state.selected_namespaces = <<"general">>

SpecificNamespaceSelected ==
  \E i \in DOMAIN state.selected_namespaces : state.selected_namespaces[i] # "general"

\* C9: after route, next_node is "librarian" exactly when a namespace other
\* than general was selected; otherwise it is "interpreter" and the
\* Librarian does not run in the turn.
C9_RetrievalIffSpecificNamespace ==
  Routed =>
    /\ state.current_node = "router" =>
         state.next_node = (IF SpecificNamespaceSelected THEN "librarian" ELSE "interpreter")
    /\ pc = "done" => (Happened(Started("librarian")) <=> SpecificNamespaceSelected)

\* C10: in every state of a turn selected_namespaces has at most
\* max_namespaces entries and retrieved_chunks at most top_k.
C10_SelectionAndChunksBounded ==
  /\ Len(state.selected_namespaces) <= max_namespaces
  /\ Len(state.retrieved_chunks) <= top_k

\* more namespaces matched than are kept, more chunks found than are kept
C10_Witness ==
  /\ state.user_message = <<"My workout and diet plan for a calm home and family">>
  /\ Len(state.selected_namespaces) = max_namespaces
  /\ Len(all_chunks) > top_k
  /\ Len(state.retrieved_chunks) = top_k

NoDuplicates(s) == \A i, j \in DOMAIN s : i # j => s[i] # s[j]

\* C11: the citation list of the state and the sources of every returned
\* result hold no two equal entries (same title, url, youtube_url and
\* timestamp), whatever chunks the Librarian's and the Interpreter's
\* _extract_citations were given.
C11_CitationsDuplicateFree ==
  /\ NoDuplicates(state.citations)
  /\ \A i \in DOMAIN result : NoDuplicates(result[i].sources)

\* two retrieved chunks of one source, cited once by the Interpreter
C11_Witness ==
  /\ pc = "done"
  /\ InterpreterReplied
  /\ \E i, j \in DOMAIN state.retrieved_chunks :
       /\ i # j
       /\ InterpreterCitation(state.retrieved_chunks[i])
            = InterpreterCitation(state.retrieved_chunks[j])
  /\ state.citations # <<>>
  /\ result[1].sources = state.citations

\* the text the Interpreter's model call returned: a str, not content blocks
TextReplied == InterpreterReplied /\ IsText(InterpreterReply)

EndsWith(text, line) == text # <<>> /\ text[Len(text)] = line

\* C12: a response with a medical topic keyword and a medical
\* advice-indicator phrase (and no harmful keyword, which would block it)
\* ends, once check_safety is done, with the medical disclaimer.
C12_MedicalAdviceEndsWithMedicalDisclaimer ==
  (/\ pc = "done"
   /\ TextReplied
   /\ ~HarmfulIn(InterpreterReply)
   /\ Triggers("medical", InterpreterReply)) =>
    EndsWith(state.final_response, disclaimers("medical"))

TopicOf(d, text) == ContainsAny(text, safety_keywords(d))

AdviceOf(d, text) == ContainsAny(text, advice_indicators(d))

DisclaimerFlags == {<<"disclaimer_added_" \o d>> : d \in Range(DisclaimerDomains)}

\* C13: for each of the four domains, a response with a topic keyword of the
\* domain and none of its advice-indicator phrases gets neither the domain's
\* disclaimer nor its disclaimer_added flag; and with no advice-indicator
\* phrase of any domain it is returned without any disclaimer or
\* disclaimer_added flag.
C13_TopicAloneNoDisclaimer ==
  (pc = "done" /\ TextReplied) =>
    \A d \in Range(DisclaimerDomains) :
      (TopicOf(d, InterpreterReply) /\ ~AdviceOf(d, InterpreterReply)) =>
        /\ state.safety_flags # <<"disclaimer_added_" \o d>>
        /\ ~EndsWith(state.final_response, disclaimers(d))
        /\ (\A e \in Range(DisclaimerDomains) : ~AdviceOf(e, InterpreterReply)) =>
             /\ state.safety_flags \notin DisclaimerFlags
             /\ \A e \in Range(DisclaimerDomains) :
                  disclaimers(e) \notin Range(state.final_response)

\* "information" holds the exercise keyword "form"; no advice phrase
C13_Witness ==
  /\ pc = "done"
  /\ TextReplied
  /\ InterpreterReply = NoInformation
  /\ TopicOf("exercise", InterpreterReply)
  /\ \A e \in Range(DisclaimerDomains) : ~AdviceOf(e, InterpreterReply)
  /\ result[1].content = NoInformation
  /\ state.safety_flags = <<"safe">>

\* C14: when retrieved_chunks is empty, the final response the Interpreter
\* leaves after its model call is exactly the fixed "don't have specific
\* information" sentence, whatever the model returned.
C14_EmptyContextGivesFixedSentence ==
  (pc = "safety" /\ TextReplied /\ state.retrieved_chunks = <<>>) =>
    state.final_response = NoInformation

\* the namespace searches of the turn, in the order of selected_namespaces
SearchEvents == SelectSeq(log, LAMBDA e : e.node = "librarian" /\ e.ev = "search")

SearchFailed(e) == e.out \in {"missing", "raises"}

\* this step is a namespace search that threw or found no collection
FailedSearchStep ==
  /\ pc = "librarian_search"
  /\ Len(log') = Len(log) + 1
  /\ SearchFailed(log'[Len(log')])

\* C15: a namespace whose search throws, or whose collection does not exist,
\* adds no chunk, sets no error and lets nothing out of the stage: the loop
\* goes on to the next namespace, or ends the stage with the top chunks
\* collected from the others; every retrieved chunk comes from a namespace
\* whose search succeeded.
C15_FailedNamespaceIsSkipped ==
  /\ [](\A i \in DOMAIN state.retrieved_chunks :
          \E k \in DOMAIN SearchEvents :
            /\ state.selected_namespaces[k] = state.retrieved_chunks[i].metadata.namespace
            /\ ~SearchFailed(SearchEvents[k]))
  /\ [][FailedSearchStep =>
          /\ state'.error = state.error
          /\ result' = result
          /\ ns_idx' = ns_idx + 1
          /\ IF ns_idx' = Len(state.selected_namespaces)
             THEN /\ pc' = "interpreter"
                  /\ state'.retrieved_chunks = Take(SortByScore(all_chunks), top_k)
             ELSE /\ pc' = "librarian_call"
                  /\ all_chunks' = all_chunks
                  /\ state' = state]_vars

\* one search threw, one found no collection, a later one gave the chunks
C15_Witness ==
  /\ pc = "interpreter"
  /\ Len(SearchEvents) = 3
  /\ SearchEvents[1].out = "raises"
  /\ SearchEvents[2].out = "missing"
  /\ SearchEvents[3].out = "found"
  /\ state.retrieved_chunks # <<>>
  /\ \A i \in DOMAIN state.retrieved_chunks :
       state.retrieved_chunks[i].metadata.namespace = state.selected_namespaces[3]
  /\ state.error = None

\* C16: the turns of a caller that sends the same query again, with empty
\* history, to collaborators that answer the same call the same way, return
\* the same content and the same citations.
C16_RepeatedTurnSameAnswer ==
  \A i, j \in DOMAIN result :
    /\ result[i].content = result[j].content
    /\ result[i].sources = result[j].sources

\* the second turn went through retrieval again and cited its sources
C16_Witness ==
  /\ pc = "done"
  /\ Len(result) = 2
  /\ Happened(Event("librarian", "search", TRUE, "found"))
  /\ result[2].sources # <<>>
  /\ memo.llm # {}

\* C17: whichever branch of check_safety was taken (empty response, block,
\* disclaimer, tone repair, pass-through, failure of the check itself), the
\* state it returns has status "complete" and next_node None.
C17_SafetyAlwaysCompletes ==
  (pc = "done" /\ Happened(Started("safety"))) =>
    /\ state.status = "complete"
    /\ state.next_node = None

CrisisKeywords == {"suicide", "self-harm"}

\* C18: the refusal that replaces a blocked response is the crisis-resource
\* redirect when the triggering keyword is suicide or self-harm, and the
\* generic refusal for every other harmful keyword.
C18_RefusalFollowsKeyword ==
  (pc = "done" /\ TextReplied /\ HarmfulIn(InterpreterReply)) =>
    LET keyword == FirstFound(safety_keywords("harmful"), InterpreterReply)
    IN  state.final_response =
          IF keyword \in CrisisKeywords THEN SafeFallbackHarmful ELSE SafeFallbackGeneric

EmbeddingFailed == Happened(Event("librarian", "embed", FALSE, "none"))

\* the Interpreter asked its model, with the context built from `chunks`
InterpreterAsked(chunks) ==
  /\ \E e \in Range(log) : e.node = "interpreter" /\ e.ev = "llm"
  /\ _build_context(chunks) = NoContext

\* C19: after a failed embedding call no namespace is searched,
\* retrieved_chunks is empty and error is set; the Interpreter then asks its
\* model with the "no relevant context" marker as context, the Safety Gate
\* runs, and the turn ends with status "complete".
C19_EmbeddingFailureStillAnswers ==
  EmbeddingFailed =>
    /\ SearchEvents = <<>>
    /\ state.retrieved_chunks = <<>>
    /\ state.error # None
    /\ pc \in {"safety", "done"} => InterpreterAsked(state.retrieved_chunks)
    /\ pc = "done" => (Happened(Started("safety")) /\ state.status = "complete")

InterpreterFailed == Happened(Event("interpreter", "llm", FALSE, "none"))

\* C20: when interpret raises, the state leaves the stage with the fixed
\* apology as final_response, no citations (whatever the Librarian had
\* stored) and error set; the Safety Gate then runs and the turn completes.
C20_InterpreterFailureFallsBack ==
  InterpreterFailed =>
    /\ pc \in {"safety", "done"}
    /\ state.citations = <<>>
    /\ state.error # None
    /\ pc = "safety" => state.final_response = InterpreterApology
    /\ pc = "done" =>
         /\ Happened(Started("safety"))
         /\ state.status = "complete"
         /\ Len(result) = 1
         /\ result[1].sources = <<>>

\* the Librarian had stored chunks with a source before the model call failed
C20_Witness ==
  /\ pc = "done"
  /\ InterpreterFailed
  /\ Librarian_extract_citations(state.retrieved_chunks) # <<>>
  /\ state.citations = <<>>
  /\ result[1].content = InterpreterApology
  /\ state.status = "complete"

\* a _search_namespace call was made and has not returned
SearchOutstanding == pc = "librarian_search"

\* C21: the searches of the selected namespaces are in flight together:
\* while the search of one namespace is outstanding and another selected
\* namespace is still to be searched, the search of that other namespace
\* can be started.
C21_SearchesFanOut ==
  (SearchOutstanding /\ ns_idx + 1 < Len(state.selected_namespaces))
    => ENABLED LibrarianSearchStart

StageOrder == <<"router", "librarian", "interpreter", "safety">>

StageIndex(node) == CHOOSE k \in DOMAIN StageOrder : StageOrder[k] = node

StartsOf(node) == {i \in DOMAIN log : log[i] = Started(node)}

\* C22: within a turn the stages run in the order Router, Librarian (only
\* when the router routed the turn to it), Interpreter, Safety Gate; each
\* runs at most once; nothing of a stage happens before its start or after
\* the start of a later stage; the Interpreter never runs without the Router
\* before it, nor the Safety Gate without the Interpreter before it.
C22_StagesRunInOrder ==
  /\ \A node \in Range(StageOrder) : Cardinality(StartsOf(node)) <= 1
  /\ \A i \in DOMAIN log :
       /\ \E j \in 1..i : log[j] = Started(log[i].node)
       /\ \A j \in 1..i : StageIndex(log[j].node) <= StageIndex(log[i].node)
  /\ Happened(Started("librarian")) =>
       (Routed /\ RouteNext(state.selected_namespaces) = "librarian")
  /\ Happened(Started("interpreter")) =>
       /\ Routed
       /\ RouteNext(state.selected_namespaces) = "librarian"
            => Happened(Started("librarian"))
  /\ Happened(Started("safety")) => Happened(Started("interpreter"))

\* a turn that went through all four stages
C22_Witness ==
  /\ pc = "done"
  /\ \A node \in Range(StageOrder) : Happened(Started(node))
  /\ Len(SearchEvents) >= 2

\* what the router's model answered to the message of this turn
RouterAnswer == (CHOOSE c \in memo.router : c.in = state.user_message).out

\* both lines of the reply are there and the confidence is a number
WellFormed(reply) ==
  /\ reply.intent # ""
  /\ reply.confidence # ""
  /\ Float(reply.confidence) >= 0

\* C28: the (intent, confidence) pair route stores is the pair parsed from a
\* reply whose two lines are well-formed, with the confidence within [0, 1],
\* or it is the default (general, 0.5); a reply with either line absent or
\* malformed gives exactly (general, 0.5).
C28_ParsedOrDefaultPair ==
  Routed =>
    /\ state.confidence \in 0..100
    /\ IF WellFormed(RouterAnswer.reply)
       THEN /\ state.intent = RouterAnswer.reply.intent
            /\ state.confidence = Float(RouterAnswer.reply.confidence)
       ELSE /\ state.intent = "general"
            /\ state.confidence = 50

\* the positions of `chunks` whose chunk has a source title and whose
\* citation, built by `cite`, is not that of an earlier such chunk
KeptPositions(cite(_), chunks) ==
  LET titled == {i \in DOMAIN chunks : chunks[i].metadata.source_title # ""}
  IN  {i \in titled : \A j \in titled : j < i => cite(chunks[j]) # cite(chunks[i])}

SafetyModelCalls(l) == SelectSeq(l, LAMBDA e : e.node = "safety" /\ e.ev = "llm")

\* C26: the tone rewrite is made only for a response on which neither the
\* block nor a disclaimer triggered; check_safety then makes exactly one
\* model call, and when that call fails final_response is the original
\* response; on every other branch check_safety makes no model call.
C26_ToneRepairOneCallWithFallback ==
  [][pc = "safety" =>
       LET response == state.final_response
           calls == Len(SafetyModelCalls(log')) - Len(SafetyModelCalls(log))
       IN  IF state'.safety_flags = <<"tone_adjusted">>
           THEN /\ ~HarmfulIn(response)
                /\ \A d \in Range(DisclaimerDomains) : ~(TopicOf(d, response) /\ AdviceOf(d, response))
                /\ calls = 1
                /\ ~log'[Len(log')].ok => state'.final_response = response
           ELSE calls = 0]_vars

\* the rewrite call failed and the harsh response was returned as it was
C26_Witness ==
  /\ pc = "done"
  /\ state.safety_flags = <<"tone_adjusted">>
  /\ Happened(Event("safety", "llm", FALSE, "none"))
  /\ _check_tone(InterpreterReply)
  /\ result[1].content = InterpreterReply

AnyDomainTriggered(response) ==
  \E d \in Range(DisclaimerDomains) : TopicOf(d, response) /\ AdviceOf(d, response)

\* check_safety, given `response`, left `flags` and `final`: one of the five
\* outcomes, decided on `response` alone, with the response changed by that
\* outcome only
DecidedOnce(response, flags, final) ==
  \/ /\ flags = <<"empty_response">>
     /\ response = <<>>
     /\ final = response
  \/ /\ Len(flags) = 2
     /\ flags[1] = "blocked"
     /\ HarmfulIn(response)
     /\ final \in RefusalTemplates
  \/ /\ flags \in DisclaimerFlags
     /\ ~HarmfulIn(response)
     /\ AnyDomainTriggered(response)
     /\ \E d \in Range(DisclaimerDomains) :
          /\ flags = <<"disclaimer_added_" \o d>>
          /\ final = response \o <<"", disclaimers(d)>>
  \/ /\ flags = <<"tone_adjusted">>
     /\ ~HarmfulIn(response)
     /\ ~AnyDomainTriggered(response)
     /\ _check_tone(response)
     /\ final \in Rewrites \cup {response}
  \/ /\ flags = <<"safe">>
     /\ response # <<>>
     /\ ~HarmfulIn(response)
     /\ ~AnyDomainTriggered(response)
     /\ ~_check_tone(response)
     /\ final = response

SearchAnswer(namespace) ==
  (CHOOSE c \in memo.search :
     c.in = [namespace |-> namespace, query |-> state.user_message]).out

\* the chunks with a text, in the order the store returned their points
WithText(points, namespace) ==
  LET chunks == [i \in DOMAIN points |-> FormatChunk(points[i], namespace)]
  IN  SelectSeq(chunks, LAMBDA c : c.text \notin {"", "   "})

\* the chunks of the first k selected namespaces, in discovery order
RECURSIVE Discovered(_)
Discovered(k) ==
  IF k = 0 THEN <<>>
  ELSE LET namespace == state.selected_namespaces[k]
           answer == SearchAnswer(namespace)
       IN  Discovered(k - 1) \o
             (IF answer.kind = "found" THEN WithText(answer.points, namespace) ELSE <<>>)

\* how many chunks of g come before g[i]: those of a higher score, and those
\* of the same score discovered earlier
Rank(g, i) ==
  Cardinality({j \in DOMAIN g :
                 \/ g[j].score > g[i].score
                 \/ g[j].score = g[i].score /\ j < i})

Ranked(g) == [k \in DOMAIN g |-> g[CHOOSE i \in DOMAIN g : Rank(g, i) = k - 1]]

RetrieveSucceeded ==
  /\ pc \in {"interpreter", "safety", "done"}
  /\ Happened(Event("librarian", "embed", TRUE, "none"))

\* C25: after a successful retrieve, retrieved_chunks is the merge of the
\* chunks with a non-blank text of all searched namespaces, sorted by score
\* descending, chunks of equal score in discovery order (namespace order,
\* then the store's order), cut to its first top_k; no chunk with an empty
\* or whitespace-only text is among them.
C25_RetrievedIsStableTopK ==
  RetrieveSucceeded =>
    LET ranked == Ranked(Discovered(Len(state.selected_namespaces)))
    IN  /\ state.retrieved_chunks = SubSeq(ranked, 1, Min(top_k, Len(ranked)))
        /\ \A i \in DOMAIN state.retrieved_chunks :
             state.retrieved_chunks[i].text \notin {"", "   "}

\* more than top_k chunks were found, the same scores in several namespaces
C25_Witness ==
  /\ RetrieveSucceeded
  /\ Len(Discovered(Len(state.selected_namespaces))) > top_k
  /\ Len(state.retrieved_chunks) = top_k
  /\ \E i \in 1..(top_k - 1) :
       /\ state.retrieved_chunks[i].score = state.retrieved_chunks[i + 1].score
       /\ state.retrieved_chunks[i].metadata.namespace
            # state.retrieved_chunks[i + 1].metadata.namespace
  /\ \E i \in 1..(top_k - 1) :
       state.retrieved_chunks[i].score > state.retrieved_chunks[i + 1].score

\* C30: a document with non-empty content that add_document stored in a
\* namespace comes back from the Librarian's search of that namespace as
\* chunks _format_chunks keeps: for every stored point there is a collected
\* chunk of that namespace whose text is the stored chunk text and whose
\* source title is the stored title.
C30_IngestedDocumentIsRetrieved ==
  RetrieveSucceeded =>
    \A k \in DOMAIN state.selected_namespaces :
      LET namespace == state.selected_namespaces[k]
      IN  \A j \in DOMAIN collections[namespace] :
            \E i \in DOMAIN all_chunks :
              /\ all_chunks[i].metadata.namespace = namespace
              /\ all_chunks[i].text = collections[namespace][j].chunk_text
              /\ all_chunks[i].metadata.source_title = collections[namespace][j].title

\* the chunks collected from the first k of `namespaces` when every search
\* meets `outcome`
RECURSIVE Collected(_, _, _)
Collected(namespaces, k, outcome) ==
  IF k = 0 THEN <<>>
  ELSE Collected(namespaces, k - 1, outcome)
         \o _format_chunks(_search_namespace(outcome), namespaces[k])

\* what process(query) returns when it is the only call, with collaborators
\* that always give the answers `fixed`
Alone(query, fixed) ==
  LET routed == route(initial_state(query, <<>>), fixed.router[1].reply)
      retrieved ==
        IF routed.next_node # "librarian" THEN routed
        ELSE IF ~fixed.embed[1] THEN RetrieveFailed(routed)
        ELSE RetrieveFinish(routed,
                            Collected(routed.selected_namespaces,
                                      Len(routed.selected_namespaces), fixed.search[1]))
      interpreted ==
        IF _is_knowledge_base_query(query)
        THEN _handle_knowledge_base_query(retrieved, fixed.store[1])
        ELSE IF fixed.llm[1].ok THEN InterpretDone(retrieved, fixed.llm[1].text)
        ELSE InterpretFailed(retrieved)
  IN  IF fixed.router[1].ok
      THEN process_return(check_safety(interpreted, fixed.tone[1]))
      ELSE process_except("model call failed")

\* C23: two turns processed concurrently by one orchestrator each have
\* their own ConversationState: under every interleaving at the awaits, the
\* state a turn works on is the one built for its own query, and the turn
\* returns what it returns when it runs alone with the same collaborator
\* replies.
C23_ConcurrentTurnsAreIsolated ==
  \A turn \in {ThisTurn, other} :
    /\ turn.pc # "idle" => turn.state.user_message = turn.call.query
    /\ turn.pc = "done" => turn.result = <<Alone(turn.call.query, memo.fixed)>>

\* the later call (the one given earlier messages) has returned its chunks'
\* answer while the first call, for another query, still waits for a search
C23_Witness ==
  /\ pc = "done"
  /\ call.chat_history # <<>>
  /\ Len(result) = 1
  /\ Len(state.retrieved_chunks) > 0
  /\ other.pc = "librarian_search"
  /\ other.call.chat_history = <<>>
  /\ other.call.query # call.query
  /\ other.state.selected_namespaces # state.selected_namespaces

\* C29: what process returns does not depend on chat_history: the state
\* that enters the graph is the one built from the query alone, and two
\* runs with the same query and collaborator replies but different
\* chat_history return the same content, citations and metadata.
C29_HistoryIsNotRead ==
  /\ \A turn \in {ThisTurn, other} :
       turn.pc = "router" => turn.state = initial_state(turn.call.query, <<>>)
  /\ (/\ pc = "done"
      /\ other.pc = "done"
      /\ call.query = other.call.query
      /\ call.chat_history # other.call.chat_history) => result = other.result

\* the same query was answered with and without earlier messages
C29_Witness ==
  /\ pc = "done"
  /\ other.pc = "done"
  /\ call.query = other.call.query
  /\ call.chat_history # other.call.chat_history
  /\ Len(result) = 1
  /\ result = other.result
  /\ result[1].sources # <<>>

====
